---- MODULE Spec2Model ----
(***************************************************************************)
(* KeymasterEnforcement (keymaster_enforcement.cpp): the authorization     *)
(* decision AuthorizeOperation, the token check AuthTokenMatches and the   *)
(* two bounded usage tables AccessTimeMap and AccessCountMap.              *)
(*                                                                         *)
(* Tags, purposes, algorithms and error codes are the strings of their C   *)
(* enumerators.  An entry of an AuthorizationSet is a record holding the   *)
(* tag and the one member of the value union that the tag uses             *)
(* (enumerated, integer, long_integer, date_time, blob).  Positions in a   *)
(* set are 0-based as in the source, with -1 for "not found".              *)
(*                                                                         *)
(* uint32_t quantities that the limits are compared with (timeouts,        *)
(* counters, clock readings) are unsigned words of WordBits bits, and      *)
(* UINT32_MAX is the largest of them.  The authenticator type keeps its    *)
(* 32 bits, since ntoh reorders its four bytes.                            *)
(*                                                                         *)
(* In Spec, SpecTables and SpecAuth a call of AuthorizeOperation is one     *)
(* step: it reads the clock once, and calls are made one at a time.  The   *)
(* variable `last` holds the call that just returned, with the tables and  *)
(* clock it met, until the caller takes the result (Return).  ok_count and *)
(* last_ok observe the history of OK results per key since boot; the code  *)
(* does not read them.                                                     *)
(*                                                                         *)
(* SpecTimeMap calls AccessTimeMap::UpdateKeyAccessTime on its own, with   *)
(* keys and timeouts of its choice.  SpecConc lets two threads call        *)
(* AuthorizeOperation at once: a call is then the sequence of its accesses *)
(* to the tables, kept in in_flight, and the accesses of the two calls     *)
(* interleave, since the code takes no lock.                               *)
(***************************************************************************)
EXTENDS Integers, Sequences, FiniteSets, TLC

\* ------------------------------------------------------------------ bounds

\* width of an unsigned word (32 in the build)
WordBits == 3
\* the clock get_current_time() reads 0..MaxTime
MaxTime == 3
\* max_size_ of the AccessTimeMap (constructor argument)
MaxAccessTimeMapSize == 2
\* max_size_ of the AccessCountMap (constructor argument)
MaxAccessCountMapSize == 2
\* the observer ok_count stops counting at OkCap
OkCap == 3

UINT32_MAX == 2^WordBits - 1

\* ---------------------------------------------------------- AuthorizationSet

EnumParam(tag, v) == [tag |-> tag, enumerated |-> v]
IntParam(tag, v) == [tag |-> tag, integer |-> v]
LongParam(tag, v) == [tag |-> tag, long_integer |-> v]
DateParam(tag, v) == [tag |-> tag, date_time |-> v]
BoolParam(tag) == [tag |-> tag, boolean |-> TRUE]
BlobParam(tag, v) == [tag |-> tag, blob |-> v]

\* auth_set[pos], pos counted from 0
At(auth_set, pos) == auth_set[pos + 1]

Positions(auth_set) == 0 .. (Len(auth_set) - 1)

\* AuthorizationSet::find(tag): the first position holding the tag, or -1
find(auth_set, tag) ==
    LET hits == {pos \in Positions(auth_set) : At(auth_set, pos).tag = tag}
    IN IF hits = {} THEN -1 ELSE CHOOSE pos \in hits : \A q \in hits : pos <= q

\* AuthorizationSet::Contains(tag, value) for an enumerated tag
Contains(auth_set, tag, value) ==
    \E pos \in Positions(auth_set) :
        /\ At(auth_set, pos).tag = tag
        /\ At(auth_set, pos).enumerated = value

HasTag(auth_set, tag) == find(auth_set, tag) /= -1

\* ------------------------------------------------------------ purpose check

\* is_public_key_algorithm that knows RSA only.
is_public_key_algorithmRsaOnly(auth_set) ==
    LET pos == find(auth_set, "KM_TAG_ALGORITHM")
    IN /\ pos /= -1
       /\ At(auth_set, pos).enumerated = "KM_ALGORITHM_RSA"

is_public_key_algorithm(auth_set) ==
    LET pos == find(auth_set, "KM_TAG_ALGORITHM")
    IN /\ pos /= -1
       /\ At(auth_set, pos).enumerated \in {"KM_ALGORITHM_RSA", "KM_ALGORITHM_EC"}

authorized_purpose(purpose, auth_set) ==
    CASE purpose \in {"KM_PURPOSE_VERIFY", "KM_PURPOSE_ENCRYPT"} ->
            IF is_public_key_algorithm(auth_set) \/ Contains(auth_set, "KM_TAG_PURPOSE", purpose)
            THEN "KM_ERROR_OK"
            ELSE "KM_ERROR_INCOMPATIBLE_PURPOSE"
      [] purpose \in {"KM_PURPOSE_SIGN", "KM_PURPOSE_DECRYPT"} ->
            IF Contains(auth_set, "KM_TAG_PURPOSE", purpose)
            THEN "KM_ERROR_OK"
            ELSE "KM_ERROR_INCOMPATIBLE_PURPOSE"
      [] OTHER -> "KM_ERROR_UNSUPPORTED_PURPOSE"

is_origination_purpose(purpose) ==
    purpose = "KM_PURPOSE_ENCRYPT" \/ purpose = "KM_PURPOSE_SIGN"

is_usage_purpose(purpose) ==
    purpose = "KM_PURPOSE_DECRYPT" \/ purpose = "KM_PURPOSE_VERIFY"

\* can_skip_authentication that skips at every begin, whatever the key.
can_skip_authenticationAnyBegin(is_begin_operation, is_auth_per_op_key) ==
    is_begin_operation

\* can_skip_authentication that skips at every step of an auth-per-op key.
can_skip_authenticationAnyStep(is_begin_operation, is_auth_per_op_key) ==
    is_auth_per_op_key

can_skip_authentication(is_begin_operation, is_auth_per_op_key) ==
    is_begin_operation /\ is_auth_per_op_key

\* ------------------------------------------------------------- usage tables

\* AccessTimeMap::LastKeyAccessTime: the first entry of the key, or -1
LastKeyAccessTime(last_access_list, keyid) ==
    LET hits == {i \in 1 .. Len(last_access_list) : last_access_list[i].keyid = keyid}
    IN IF hits = {} THEN -1
       ELSE last_access_list[CHOOSE i \in hits : \A j \in hits : i <= j].access_time

\* AccessCountMap::KeyAccessCount: the first entry of the key, or -1
KeyAccessCount(access_count_list, keyid) ==
    LET hits == {i \in 1 .. Len(access_count_list) : access_count_list[i].keyid = keyid}
    IN IF hits = {} THEN -1
       ELSE access_count_list[CHOOSE i \in hits : \A j \in hits : i <= j].access_count

MinTimeBetweenOpsPassed(last_access_list, current_time, min_time_between, keyid) ==
    LET last_access_time == LastKeyAccessTime(last_access_list, keyid)
    IN IF last_access_time = -1 THEN TRUE
       ELSE min_time_between <= current_time - last_access_time

MaxUsesPerBootNotExceeded(access_count_list, keyid, max_uses) ==
    LET key_access_count == KeyAccessCount(access_count_list, keyid)
    IN IF key_access_count = -1 THEN TRUE
       ELSE key_access_count < max_uses

\* The scan with > in place of >= in the test that erases an entry.
RECURSIVE UpdateScanStrict(_, _, _, _, _)
UpdateScanStrict(list, i, kept, keyid, current_time) ==
    IF i > Len(list) THEN [list |-> kept, found |-> FALSE]
    ELSE IF list[i].keyid = keyid
         THEN [list |-> kept \o <<[list[i] EXCEPT !.access_time = current_time]>>
                             \o SubSeq(list, i + 1, Len(list)),
               found |-> TRUE]
         ELSE IF (current_time - list[i].access_time) % (UINT32_MAX + 1) > list[i].timeout
              THEN UpdateScanStrict(list, i + 1, kept, keyid, current_time)
              ELSE UpdateScanStrict(list, i + 1, Append(kept, list[i]), keyid, current_time)

\* The scan of UpdateKeyAccessTime from list position i on: `kept` are the
\* entries already passed and not erased.  Result: the list and the return
\* value, found = TRUE when the key's entry was met and refreshed.
RECURSIVE UpdateScan(_, _, _, _, _)
UpdateScan(list, i, kept, keyid, current_time) ==
    IF i > Len(list) THEN [list |-> kept, found |-> FALSE]
    ELSE IF list[i].keyid = keyid
         THEN [list |-> kept \o <<[list[i] EXCEPT !.access_time = current_time]>>
                             \o SubSeq(list, i + 1, Len(list)),
               found |-> TRUE]
         ELSE IF (current_time - list[i].access_time) % (UINT32_MAX + 1) >= list[i].timeout
              THEN UpdateScan(list, i + 1, kept, keyid, current_time)
              ELSE UpdateScan(list, i + 1, Append(kept, list[i]), keyid, current_time)

\* UpdateKeyAccessTime that makes room in a full table by dropping its oldest
\* entry (the back of the list), expired or not.
UpdateKeyAccessTimeEvictOldest(last_access_list, keyid, current_time, timeout) ==
    LET scan == UpdateScan(last_access_list, 1, <<>>, keyid, current_time)
        new_entry == [keyid |-> keyid, access_time |-> current_time, timeout |-> timeout]
    IN IF scan.found THEN [list |-> scan.list, ok |-> TRUE]
       ELSE IF Len(scan.list) >= MaxAccessTimeMapSize
            THEN [list |-> <<new_entry>> \o SubSeq(scan.list, 1, Len(scan.list) - 1),
                  ok |-> TRUE]
            ELSE [list |-> <<new_entry>> \o scan.list, ok |-> TRUE]

\* UpdateKeyAccessTime that tests the size of the list before it looks for
\* the key.
UpdateKeyAccessTimeSizeFirst(last_access_list, keyid, current_time, timeout) ==
    LET scan == UpdateScan(last_access_list, 1, <<>>, keyid, current_time)
    IN IF Len(last_access_list) >= MaxAccessTimeMapSize
       THEN [list |-> last_access_list, ok |-> FALSE]
       ELSE IF scan.found THEN [list |-> scan.list, ok |-> TRUE]
       ELSE [list |-> <<[keyid |-> keyid, access_time |-> current_time,
                         timeout |-> timeout]>> \o scan.list,
             ok |-> TRUE]

\* UpdateKeyAccessTime that stores in a new entry the time at which the entry
\* will expire, not the time of the access.
UpdateKeyAccessTimeStoreExpiry(last_access_list, keyid, current_time, timeout) ==
    LET scan == UpdateScan(last_access_list, 1, <<>>, keyid, current_time)
    IN IF scan.found THEN [list |-> scan.list, ok |-> TRUE]
       ELSE IF Len(scan.list) >= MaxAccessTimeMapSize
            THEN [list |-> scan.list, ok |-> FALSE]
            ELSE [list |-> <<[keyid |-> keyid,
                              access_time |-> (current_time + timeout) % (UINT32_MAX + 1),
                              timeout |-> timeout]>> \o scan.list,
                  ok |-> TRUE]

UpdateKeyAccessTime(last_access_list, keyid, current_time, timeout) ==
    LET scan == UpdateScan(last_access_list, 1, <<>>, keyid, current_time)
    IN IF scan.found THEN [list |-> scan.list, ok |-> TRUE]
       ELSE IF Len(scan.list) >= MaxAccessTimeMapSize
            THEN [list |-> scan.list, ok |-> FALSE]
            ELSE [list |-> <<[keyid |-> keyid, access_time |-> current_time,
                              timeout |-> timeout]>> \o scan.list,
                  ok |-> TRUE]

\* IncrementKeyAccessCount that makes room in a full table by dropping its
\* oldest entry (the back of the list).
IncrementKeyAccessCountEvictOldest(access_count_list, keyid) ==
    LET hits == {i \in 1 .. Len(access_count_list) : access_count_list[i].keyid = keyid}
        new_entry == [keyid |-> keyid, access_count |-> 1]
    IN IF hits /= {}
       THEN LET i == CHOOSE h \in hits : \A j \in hits : h <= j
                c == access_count_list[i].access_count
            IN [list |-> [access_count_list EXCEPT
                            ![i].access_count = IF c < UINT32_MAX THEN c + 1 ELSE c],
                ok |-> TRUE]
       ELSE IF Len(access_count_list) >= MaxAccessCountMapSize
            THEN [list |-> <<new_entry>>
                             \o SubSeq(access_count_list, 1, Len(access_count_list) - 1),
                  ok |-> TRUE]
            ELSE [list |-> <<new_entry>> \o access_count_list, ok |-> TRUE]

\* IncrementKeyAccessCount without the test of the list's size.
IncrementKeyAccessCountNoLimit(access_count_list, keyid) ==
    LET hits == {i \in 1 .. Len(access_count_list) : access_count_list[i].keyid = keyid}
    IN IF hits /= {}
       THEN LET i == CHOOSE h \in hits : \A j \in hits : h <= j
                c == access_count_list[i].access_count
            IN [list |-> [access_count_list EXCEPT
                            ![i].access_count = IF c < UINT32_MAX THEN c + 1 ELSE c],
                ok |-> TRUE]
       ELSE [list |-> <<[keyid |-> keyid, access_count |-> 1]>> \o access_count_list,
             ok |-> TRUE]

IncrementKeyAccessCount(access_count_list, keyid) ==
    LET hits == {i \in 1 .. Len(access_count_list) : access_count_list[i].keyid = keyid}
    IN IF hits /= {}
       THEN LET i == CHOOSE h \in hits : \A j \in hits : h <= j
                c == access_count_list[i].access_count
            IN [list |-> [access_count_list EXCEPT
                            ![i].access_count = IF c < UINT32_MAX THEN c + 1 ELSE c],
                ok |-> TRUE]
       ELSE IF Len(access_count_list) >= MaxAccessCountMapSize
            THEN [list |-> access_count_list, ok |-> FALSE]
            ELSE [list |-> <<[keyid |-> keyid, access_count |-> 1]>> \o access_count_list,
                  ok |-> TRUE]

\* ------------------------------------------------------------ token check

\* sizeof(hw_auth_token_t) and HW_AUTH_TOKEN_VERSION
HwAuthTokenSize == 69
HW_AUTH_TOKEN_VERSION == 0

\* ntoh on a 32-bit value: the four bytes in reverse order
ntoh(x) ==
    ((x % 256) * 16777216) + (((x \div 256) % 256) * 65536)
        + (((x \div 65536) % 256) * 256) + ((x \div 16777216) % 256)

\* the & of two unsigned values
RECURSIVE BitAnd(_, _)
BitAnd(a, b) ==
    IF a = 0 \/ b = 0 THEN 0
    ELSE ((a % 2) * (b % 2)) + 2 * BitAnd(a \div 2, b \div 2)

\* The collaborators the platform supplies (pure virtual in the class).
ValidateTokenSignature(auth_token) == auth_token.hmac_valid

auth_token_timed_out(auth_token, timeout, current_time) ==
    current_time > auth_token.timestamp + timeout

activation_date_valid(activation_date, current_time) == activation_date <= current_time

expiration_date_passed(expire_date, current_time) == expire_date < current_time

\* AuthTokenMatches without the call of ValidateTokenSignature.
AuthTokenMatchesNoSignature(auth_set, operation_params, user_secure_id, auth_type_index, auth_timeout_index, op_handle, is_begin_operation, current_time) ==
    LET tpos == find(operation_params, "KM_TAG_AUTH_TOKEN")
        auth_token == At(operation_params, tpos).blob
    IN /\ tpos /= -1
       /\ auth_token.data_length = HwAuthTokenSize
       /\ auth_token.version = HW_AUTH_TOKEN_VERSION
       /\ ~(auth_timeout_index = -1 /\ op_handle /= 0 /\ op_handle /= auth_token.challenge)
       /\ ~(user_secure_id /= auth_token.user_id
              /\ user_secure_id /= auth_token.authenticator_id)
       /\ ~(auth_type_index < 0 \/ auth_type_index > Len(auth_set))
       /\ At(auth_set, auth_type_index).tag = "KM_TAG_USER_AUTH_TYPE"
       /\ LET key_auth_type_mask == At(auth_set, auth_type_index).integer
              token_auth_type == ntoh(auth_token.authenticator_type)
          IN BitAnd(key_auth_type_mask, token_auth_type) /= 0
       /\ (auth_timeout_index /= -1 /\ is_begin_operation) =>
             /\ At(auth_set, auth_timeout_index).tag = "KM_TAG_AUTH_TIMEOUT"
             /\ ~auth_token_timed_out(auth_token, At(auth_set, auth_timeout_index).integer,
                                      current_time)

\* AuthTokenMatches that takes a policy without USER_AUTH_TYPE to accept any
\* authenticator type.
AuthTokenMatchesAnyTypeIfNone(auth_set, operation_params, user_secure_id, auth_type_index, auth_timeout_index, op_handle, is_begin_operation, current_time) ==
    LET tpos == find(operation_params, "KM_TAG_AUTH_TOKEN")
        auth_token == At(operation_params, tpos).blob
    IN /\ tpos /= -1
       /\ auth_token.data_length = HwAuthTokenSize
       /\ auth_token.version = HW_AUTH_TOKEN_VERSION
       /\ ValidateTokenSignature(auth_token)
       /\ ~(auth_timeout_index = -1 /\ op_handle /= 0 /\ op_handle /= auth_token.challenge)
       /\ ~(user_secure_id /= auth_token.user_id
              /\ user_secure_id /= auth_token.authenticator_id)
       /\ ~(auth_type_index < 0 \/ auth_type_index > Len(auth_set)) =>
             /\ At(auth_set, auth_type_index).tag = "KM_TAG_USER_AUTH_TYPE"
             /\ LET key_auth_type_mask == At(auth_set, auth_type_index).integer
                    token_auth_type == ntoh(auth_token.authenticator_type)
                IN BitAnd(key_auth_type_mask, token_auth_type) /= 0
       /\ (auth_timeout_index /= -1 /\ is_begin_operation) =>
             /\ At(auth_set, auth_timeout_index).tag = "KM_TAG_AUTH_TIMEOUT"
             /\ ~auth_token_timed_out(auth_token, At(auth_set, auth_timeout_index).integer,
                                      current_time)

\* operation_params.GetTagValue(TAG_AUTH_TOKEN, &blob): the first token blob.
\* A blob is the record of its length and of the fields a blob of the right
\* length holds.
AuthTokenMatches(auth_set, operation_params, user_secure_id, auth_type_index, auth_timeout_index, op_handle, is_begin_operation, current_time) ==
    LET tpos == find(operation_params, "KM_TAG_AUTH_TOKEN")
        auth_token == At(operation_params, tpos).blob
    IN /\ tpos /= -1
       /\ auth_token.data_length = HwAuthTokenSize
       /\ auth_token.version = HW_AUTH_TOKEN_VERSION
       /\ ValidateTokenSignature(auth_token)
       /\ ~(auth_timeout_index = -1 /\ op_handle /= 0 /\ op_handle /= auth_token.challenge)
       /\ ~(user_secure_id /= auth_token.user_id
              /\ user_secure_id /= auth_token.authenticator_id)
       /\ ~(auth_type_index < 0 \/ auth_type_index > Len(auth_set))
       /\ At(auth_set, auth_type_index).tag = "KM_TAG_USER_AUTH_TYPE"
       /\ LET key_auth_type_mask == At(auth_set, auth_type_index).integer
              token_auth_type == ntoh(auth_token.authenticator_type)
          IN BitAnd(key_auth_type_mask, token_auth_type) /= 0
       /\ (auth_timeout_index /= -1 /\ is_begin_operation) =>
             /\ At(auth_set, auth_timeout_index).tag = "KM_TAG_AUTH_TIMEOUT"
             /\ ~auth_token_timed_out(auth_token, At(auth_set, auth_timeout_index).integer,
                                      current_time)

\* ------------------------------------------------------ AuthorizeOperation

\* The first loop of AuthorizeOperation: the last position of each of the
\* three tags, or -1.
LastIndexOf(auth_set, tag) ==
    LET hits == {pos \in Positions(auth_set) : At(auth_set, pos).tag = tag}
    IN IF hits = {} THEN -1 ELSE CHOOSE pos \in hits : \A q \in hits : q <= pos

\* A call: the arguments of AuthorizeOperation, the two lists and the clock
\* reading at the call.
Call(purpose, keyid, auth_set, operation_params, op_handle, is_begin_operation, last_access_list, access_count_list, current_time) ==
    [purpose |-> purpose, keyid |-> keyid, auth_set |-> auth_set,
     operation_params |-> operation_params, op_handle |-> op_handle,
     is_begin_operation |-> is_begin_operation,
     last_access_list |-> last_access_list, access_count_list |-> access_count_list,
     current_time |-> current_time]

\* The locals of AuthorizeOperation before the second loop.
InitLocals ==
    [error |-> "KM_ERROR_OK", min_ops_timeout |-> UINT32_MAX,
     update_access_count |-> FALSE, found_caller_nonce |-> FALSE,
     authentication_required |-> FALSE, auth_token_matched |-> FALSE]

\* IsInvalidTag without the case KM_TAG_BOOTLOADER_ONLY.
IsInvalidTagNoBootloader(tag) ==
    tag \in {"KM_TAG_INVALID", "KM_TAG_AUTH_TOKEN", "KM_TAG_ROOT_OF_TRUST",
             "KM_TAG_APPLICATION_DATA"}

\* The cases of the switch that return KM_ERROR_INVALID_KEY_BLOB at once.
IsInvalidTag(tag) ==
    \/ tag \in {"KM_TAG_INVALID", "KM_TAG_AUTH_TOKEN", "KM_TAG_ROOT_OF_TRUST",
                "KM_TAG_APPLICATION_DATA"}
    \/ tag = "KM_TAG_BOOTLOADER_ONLY"

\* Whether the KM_TAG_USER_SECURE_ID case validates the token in this call.
AuthenticationNeeded(c) ==
    \/ ~can_skip_authentication(c.is_begin_operation,
                                LastIndexOf(c.auth_set, "KM_TAG_AUTH_TIMEOUT") = -1)
    \/ find(c.operation_params, "KM_TAG_AUTH_TOKEN") /= -1

\* The case KM_TAG_USER_SECURE_ID of the switch.
UserSecureIdRule(c, l, param) ==
    IF LastIndexOf(c.auth_set, "KM_TAG_NO_AUTH_REQUIRED") /= -1
    THEN [l EXCEPT !.error = "KM_ERROR_INVALID_KEY_BLOB"]
    ELSE IF AuthenticationNeeded(c)
         THEN [l EXCEPT
                 !.authentication_required = TRUE,
                 !.auth_token_matched =
                     \/ l.auth_token_matched
                     \/ AuthTokenMatches(c.auth_set, c.operation_params,
                            param.long_integer,
                            LastIndexOf(c.auth_set, "KM_TAG_USER_AUTH_TYPE"),
                            LastIndexOf(c.auth_set, "KM_TAG_AUTH_TIMEOUT"),
                            c.op_handle, c.is_begin_operation, c.current_time)]
         ELSE l

\* One iteration of the second loop: the switch on param.tag.  error other
\* than KM_ERROR_OK is the return taken inside the loop.
TagRule(c, l, param) ==
    CASE param.tag = "KM_TAG_ACTIVE_DATETIME" ->
            IF ~activation_date_valid(param.date_time, c.current_time)
            THEN [l EXCEPT !.error = "KM_ERROR_KEY_NOT_YET_VALID"] ELSE l
      [] param.tag = "KM_TAG_ORIGINATION_EXPIRE_DATETIME" ->
            IF is_origination_purpose(c.purpose)
                  /\ expiration_date_passed(param.date_time, c.current_time)
            THEN [l EXCEPT !.error = "KM_ERROR_KEY_EXPIRED"] ELSE l
      [] param.tag = "KM_TAG_USAGE_EXPIRE_DATETIME" ->
            IF is_usage_purpose(c.purpose)
                  /\ expiration_date_passed(param.date_time, c.current_time)
            THEN [l EXCEPT !.error = "KM_ERROR_KEY_EXPIRED"] ELSE l
      [] param.tag = "KM_TAG_MIN_SECONDS_BETWEEN_OPS" ->
            IF ~MinTimeBetweenOpsPassed(c.last_access_list, c.current_time,
                                        param.integer, c.keyid)
            THEN [l EXCEPT !.min_ops_timeout = param.integer,
                           !.error = "KM_ERROR_KEY_RATE_LIMIT_EXCEEDED"]
            ELSE [l EXCEPT !.min_ops_timeout = param.integer]
      [] param.tag = "KM_TAG_MAX_USES_PER_BOOT" ->
            IF ~MaxUsesPerBootNotExceeded(c.access_count_list, c.keyid, param.integer)
            THEN [l EXCEPT !.update_access_count = TRUE,
                           !.error = "KM_ERROR_KEY_MAX_OPS_EXCEEDED"]
            ELSE [l EXCEPT !.update_access_count = TRUE]
      [] param.tag = "KM_TAG_USER_SECURE_ID" -> UserSecureIdRule(c, l, param)
      [] param.tag = "KM_TAG_CALLER_NONCE" -> [l EXCEPT !.found_caller_nonce = TRUE]
      [] IsInvalidTag(param.tag) -> [l EXCEPT !.error = "KM_ERROR_INVALID_KEY_BLOB"]
      [] OTHER -> l

\* The second loop over auth_set[0 .. n-1], stopping at the first return.
RECURSIVE ScanFrom(_, _, _, _)
ScanFrom(c, l, pos, n) ==
    IF pos >= n \/ l.error /= "KM_ERROR_OK" THEN l
    ELSE ScanFrom(c, TagRule(c, l, At(c.auth_set, pos)), pos + 1, n)

ScanPolicy(c, n) == ScanFrom(c, InitLocals, 0, n)

\* ContentError without the caller-nonce check of lines 220-221.
ContentErrorNoNonceCheck(c) ==
    LET error == authorized_purpose(c.purpose, c.auth_set)
        l == ScanPolicy(c, Len(c.auth_set))
    IN IF error /= "KM_ERROR_OK" THEN error
       ELSE IF l.error /= "KM_ERROR_OK" THEN l.error
       ELSE IF l.authentication_required /\ ~l.auth_token_matched
            THEN "KM_ERROR_KEY_USER_NOT_AUTHENTICATED"
       ELSE "KM_ERROR_OK"

\* The return value of the part of AuthorizeOperation that reads only:
\* purpose check, second loop, authentication check, caller-nonce check.
ContentError(c) ==
    LET error == authorized_purpose(c.purpose, c.auth_set)
        l == ScanPolicy(c, Len(c.auth_set))
    IN IF error /= "KM_ERROR_OK" THEN error
       ELSE IF l.error /= "KM_ERROR_OK" THEN l.error
       ELSE IF l.authentication_required /\ ~l.auth_token_matched
            THEN "KM_ERROR_KEY_USER_NOT_AUTHENTICATED"
       ELSE IF ~l.found_caller_nonce /\ find(c.operation_params, "KM_TAG_NONCE") /= -1
            THEN "KM_ERROR_CALLER_NONCE_PROHIBITED"
       ELSE "KM_ERROR_OK"

\* The two table updates that end AuthorizeOperation, given the locals l the
\* second loop left: the return value and the two lists after the call.
CommitUpdates(c, l) ==
    LET t == UpdateKeyAccessTime(c.last_access_list, c.keyid, c.current_time,
                                 l.min_ops_timeout)
        n == IncrementKeyAccessCount(c.access_count_list, c.keyid)
    IN IF l.min_ops_timeout /= UINT32_MAX /\ ~t.ok
       THEN [ret |-> "KM_ERROR_TOO_MANY_OPERATIONS",
             last_access_list |-> t.list, access_count_list |-> c.access_count_list]
       ELSE LET time_list == IF l.min_ops_timeout /= UINT32_MAX
                             THEN t.list ELSE c.last_access_list
            IN IF l.update_access_count /\ ~n.ok
               THEN [ret |-> "KM_ERROR_TOO_MANY_OPERATIONS",
                     last_access_list |-> time_list, access_count_list |-> n.list]
               ELSE [ret |-> "KM_ERROR_OK",
                     last_access_list |-> time_list,
                     access_count_list |-> IF l.update_access_count
                                           THEN n.list ELSE c.access_count_list]

\* Authorize with the tables updated as soon as the second loop has passed,
\* before the authentication and caller-nonce checks.
AuthorizeEagerUpdate(c) ==
    LET error == ContentError(c)
        l == ScanPolicy(c, Len(c.auth_set))
        u == CommitUpdates(c, l)
    IN IF error = "KM_ERROR_OK" THEN u
       ELSE IF authorized_purpose(c.purpose, c.auth_set) = "KM_ERROR_OK"
                 /\ l.error = "KM_ERROR_OK"
            THEN [ret |-> error, last_access_list |-> u.last_access_list,
                  access_count_list |-> u.access_count_list]
            ELSE [ret |-> error, last_access_list |-> c.last_access_list,
                  access_count_list |-> c.access_count_list]

\* Authorize with the two table updates attempted as soon as the loop over
\* the policy has passed, before the authentication and caller-nonce checks.
AuthorizeCommitBeforeAuth(c) ==
    LET l == ScanPolicy(c, Len(c.auth_set))
        u == CommitUpdates(c, l)
        untouched(ret) == [ret |-> ret, last_access_list |-> c.last_access_list,
                           access_count_list |-> c.access_count_list]
    IN IF authorized_purpose(c.purpose, c.auth_set) /= "KM_ERROR_OK" \/ l.error /= "KM_ERROR_OK"
       THEN untouched(ContentError(c))
       ELSE IF u.ret = "KM_ERROR_TOO_MANY_OPERATIONS" THEN u
       ELSE IF ContentError(c) /= "KM_ERROR_OK" THEN untouched(ContentError(c))
       ELSE u

\* The whole call: return value and the lists it leaves.
Authorize(c) ==
    LET error == ContentError(c)
    IN IF error /= "KM_ERROR_OK"
       THEN [ret |-> error, last_access_list |-> c.last_access_list,
             access_count_list |-> c.access_count_list]
       ELSE CommitUpdates(c, ScanPolicy(c, Len(c.auth_set)))

\* ------------------------------------------------------------ keys, inputs

\* authenticator types: host value, and the same value in network byte order
HW_AUTH_PASSWORD == 1
HW_AUTH_FINGERPRINT == 2
hton(x) == ntoh(x)

\* A token blob of the right size: its fields.
Token(challenge, user_id, authenticator_id, authenticator_type, timestamp) ==
    [data_length |-> HwAuthTokenSize, version |-> HW_AUTH_TOKEN_VERSION,
     challenge |-> challenge, user_id |-> user_id,
     authenticator_id |-> authenticator_id,
     authenticator_type |-> hton(authenticator_type),
     timestamp |-> timestamp, hmac_valid |-> TRUE]

GoodToken == Token(1, 42, 7, HW_AUTH_PASSWORD, 0)

Purpose(p) == EnumParam("KM_TAG_PURPOSE", p)
Sign == Purpose("KM_PURPOSE_SIGN")
MinSeconds(t) == IntParam("KM_TAG_MIN_SECONDS_BETWEEN_OPS", t)
MaxUses(n) == IntParam("KM_TAG_MAX_USES_PER_BOOT", n)
SecureId(id) == LongParam("KM_TAG_USER_SECURE_ID", id)
AuthType(mask) == IntParam("KM_TAG_USER_AUTH_TYPE", mask)
AuthTimeout(t) == IntParam("KM_TAG_AUTH_TIMEOUT", t)
AuthToken(tok) == BlobParam("KM_TAG_AUTH_TOKEN", tok)
Nonce == BlobParam("KM_TAG_NONCE", "nonce")

\* The keys the service holds: km_id_t |-> the key's authorization set.
\* Keys 1..7 carry usage limits; keys 11..28 are the authentication, purpose
\* and malformed-policy cases.
KeyPolicy ==
    1 :> <<Sign, MinSeconds(1)>>
 @@ 2 :> <<Sign, MinSeconds(2), MaxUses(2)>>
 @@ 3 :> <<Sign, MaxUses(0)>>
 @@ 4 :> <<Sign, MinSeconds(UINT32_MAX)>>
 @@ 5 :> <<Sign, MaxUses(1), MinSeconds(1),
           DateParam("KM_TAG_ACTIVE_DATETIME", 1),
           DateParam("KM_TAG_ORIGINATION_EXPIRE_DATETIME", 2),
           SecureId(42), AuthType(HW_AUTH_PASSWORD), AuthTimeout(1)>>
 @@ 6 :> <<Sign, MaxUses(1), BoolParam("KM_TAG_CALLER_NONCE")>>
 @@ 7 :> <<Sign, MinSeconds(1), MaxUses(1), BoolParam("KM_TAG_BOOTLOADER_ONLY")>>
 @@ 11 :> <<Sign, SecureId(42), AuthType(HW_AUTH_PASSWORD), AuthTimeout(1)>>
 @@ 12 :> <<Sign, SecureId(42), AuthType(HW_AUTH_PASSWORD)>>
 @@ 13 :> <<Sign, SecureId(42)>>
 @@ 14 :> <<Sign, SecureId(42), BoolParam("KM_TAG_NO_AUTH_REQUIRED")>>
 @@ 15 :> <<Sign, BoolParam("KM_TAG_NO_AUTH_REQUIRED"), SecureId(42),
            AuthType(HW_AUTH_PASSWORD)>>
 @@ 16 :> <<Sign, EnumParam("KM_TAG_INVALID", 0)>>
 @@ 17 :> <<Sign, AuthToken(GoodToken)>>
 @@ 18 :> <<Sign, DateParam("KM_TAG_ORIGINATION_EXPIRE_DATETIME", 1),
            BlobParam("KM_TAG_ROOT_OF_TRUST", "root")>>
 @@ 19 :> <<BlobParam("KM_TAG_APPLICATION_DATA", "data"), Sign>>
 @@ 20 :> <<Sign, BoolParam("KM_TAG_BOOTLOADER_ONLY")>>
 @@ 21 :> <<EnumParam("KM_TAG_ALGORITHM", "KM_ALGORITHM_RSA")>>
 @@ 22 :> <<EnumParam("KM_TAG_ALGORITHM", "KM_ALGORITHM_AES")>>
 @@ 23 :> <<EnumParam("KM_TAG_ALGORITHM", "KM_ALGORITHM_AES"),
            Purpose("KM_PURPOSE_DECRYPT"), Purpose("KM_PURPOSE_ENCRYPT")>>
 @@ 24 :> <<EnumParam("KM_TAG_ALGORITHM", "KM_ALGORITHM_EC"), Sign,
            BoolParam("KM_TAG_CALLER_NONCE")>>
 @@ 25 :> <<Purpose("KM_PURPOSE_VERIFY"), DateParam("KM_TAG_ACTIVE_DATETIME", 1),
            DateParam("KM_TAG_USAGE_EXPIRE_DATETIME", 2)>>
 @@ 26 :> <<Sign, SecureId(9), SecureId(42),
            AuthType(HW_AUTH_PASSWORD + HW_AUTH_FINGERPRINT)>>
 @@ 27 :> <<Sign, SecureId(42), AuthType(HW_AUTH_PASSWORD), AuthTimeout(1),
            DateParam("KM_TAG_ORIGINATION_EXPIRE_DATETIME", 1)>>
 @@ 28 :> <<Sign, SecureId(42), AuthTimeout(1)>>

UsageKeys == 1 .. 7

AuthKeys == 11 .. 28

KeyIds == DOMAIN KeyPolicy

UsagePurposes == {"KM_PURPOSE_SIGN", "KM_PURPOSE_VERIFY", "KM_PURPOSE_OTHER"}

UsageParams ==
    {<<>>, <<Nonce>>, <<AuthToken(GoodToken)>>, <<AuthToken(GoodToken), Nonce>>}

AuthPurposes ==
    {"KM_PURPOSE_ENCRYPT", "KM_PURPOSE_DECRYPT", "KM_PURPOSE_SIGN", "KM_PURPOSE_VERIFY",
     "KM_PURPOSE_OTHER"}

\* Tokens: the good one, and tokens that differ from it in one field.
AuthTokens ==
    {GoodToken,
     [GoodToken EXCEPT !.challenge = 2],
     [GoodToken EXCEPT !.user_id = 9, !.authenticator_id = 42],
     [GoodToken EXCEPT !.user_id = 9],
     [GoodToken EXCEPT !.authenticator_type = hton(HW_AUTH_FINGERPRINT)],
     [GoodToken EXCEPT !.authenticator_type = HW_AUTH_PASSWORD],
     [GoodToken EXCEPT !.timestamp = 2],
     [GoodToken EXCEPT !.hmac_valid = FALSE],
     [GoodToken EXCEPT !.data_length = HwAuthTokenSize - 1],
     [GoodToken EXCEPT !.version = HW_AUTH_TOKEN_VERSION + 1]}

AuthParams ==
    {<<>>, <<Nonce>>, <<AuthToken(GoodToken), Nonce>>,
     <<AuthToken([GoodToken EXCEPT !.hmac_valid = FALSE]), AuthToken(GoodToken)>>}
      \cup {<<AuthToken(tok)>> : tok \in AuthTokens}

OpHandles == {0, 1, 2}

\* ------------------------------------------------------------------- state

Counted(keyid) == HasTag(KeyPolicy[keyid], "KM_TAG_MAX_USES_PER_BOOT")
RateLimited(keyid) == HasTag(KeyPolicy[keyid], "KM_TAG_MIN_SECONDS_BETWEEN_OPS")

CountedKeys == {k \in KeyIds : Counted(k)}
RateLimitedKeys == {k \in KeyIds : RateLimited(k)}

VARIABLES
    access_time_map_,   \* AccessTimeMap::last_access_list_
    access_count_map_,  \* AccessCountMap::access_count_list_
    now,                \* what get_current_time() reads
    last,               \* the call that just returned: its arguments, the lists and
                        \* clock it met, its return value
    ok_count,           \* per counted key: calls that returned KM_ERROR_OK this boot
    last_ok,            \* per rate-limited key: clock of its last KM_ERROR_OK, or -1
    in_flight           \* per caller thread: how far its call of AuthorizeOperation
                        \* has come, and the locals it holds

vars == <<access_time_map_, access_count_map_, now, last, ok_count, last_ok, in_flight>>

\* The threads that may call the service at the same time, and a thread that
\* is not in a call.
Threads == {"t1", "t2"}
Idle == [pc |-> "idle"]

NoCall == [called |-> FALSE]

Init ==
    /\ access_time_map_ = <<>>
    /\ access_count_map_ = <<>>
    /\ now = 0
    /\ last = NoCall
    /\ ok_count = [k \in CountedKeys |-> 0]
    /\ last_ok = [k \in RateLimitedKeys |-> -1]
    /\ in_flight = [t \in Threads |-> Idle]

\* One call of AuthorizeOperation, start to return.
AuthorizeOperation(purpose, keyid, auth_set, operation_params, op_handle, is_begin_operation) ==
    LET c == Call(purpose, keyid, auth_set, operation_params, op_handle,
                  is_begin_operation, access_time_map_, access_count_map_, now)
        r == Authorize(c)
        ok == r.ret = "KM_ERROR_OK"
    IN /\ access_time_map_' = r.last_access_list
       /\ access_count_map_' = r.access_count_list
       /\ last' = [called |-> TRUE, c |-> c, ret |-> r.ret,
                   ok_before |-> IF Counted(keyid) THEN ok_count[keyid] ELSE 0,
                   last_ok_before |-> IF RateLimited(keyid) THEN last_ok[keyid] ELSE -1]
       /\ ok_count' = IF ok /\ Counted(keyid) /\ ok_count[keyid] < OkCap
                      THEN [ok_count EXCEPT ![keyid] = @ + 1] ELSE ok_count
       /\ last_ok' = IF ok /\ RateLimited(keyid)
                     THEN [last_ok EXCEPT ![keyid] = now] ELSE last_ok
       /\ UNCHANGED <<now, in_flight>>

\* The caller takes the return value; the service is ready for the next call.
Return ==
    /\ last /= NoCall
    /\ last' = NoCall
    /\ UNCHANGED <<access_time_map_, access_count_map_, now, ok_count, last_ok, in_flight>>

\* The monotonic clock moves on.
Tick ==
    /\ last = NoCall
    /\ now < MaxTime
    /\ now' = now + 1
    /\ last' = NoCall
    /\ UNCHANGED <<access_time_map_, access_count_map_, ok_count, last_ok, in_flight>>

\* The service restarts: a new KeymasterEnforcement with empty tables.
Reboot ==
    /\ last = NoCall
    /\ access_time_map_' = <<>>
    /\ access_count_map_' = <<>>
    /\ last' = NoCall
    /\ ok_count' = [k \in CountedKeys |-> 0]
    /\ last_ok' = [k \in RateLimitedKeys |-> -1]
    /\ UNCHANGED <<now, in_flight>>

\* An operation on a usage-limited key begins; calls are made one at a time.
UsageCall ==
    /\ last = NoCall
    /\ \E keyid \in UsageKeys, purpose \in UsagePurposes, operation_params \in UsageParams :
        AuthorizeOperation(purpose, keyid, KeyPolicy[keyid], operation_params, 0, TRUE)

\* The service is called with the other keys, one call at a time.
AuthCall ==
    /\ last = NoCall
    /\ \E keyid \in AuthKeys, purpose \in AuthPurposes, operation_params \in AuthParams,
       op_handle \in OpHandles, is_begin_operation \in BOOLEAN :
        AuthorizeOperation(purpose, keyid, KeyPolicy[keyid], operation_params, op_handle,
                           is_begin_operation)

Next == UsageCall \/ Return \/ Tick \/ Reboot

Spec == Init /\ [][Next]_vars

\* SIGN begins on a usage-limited key, with or without the token of its user:
\* the calls that reach the two tables, one at a time.
TableParams == {<<>>, <<AuthToken(GoodToken)>>}

TableCall ==
    /\ last = NoCall
    /\ \E keyid \in UsageKeys, operation_params \in TableParams :
        AuthorizeOperation("KM_PURPOSE_SIGN", keyid, KeyPolicy[keyid], operation_params, 0, TRUE)

NextTables == TableCall \/ Return \/ Tick \/ Reboot

SpecTables == Init /\ [][NextTables]_vars

NextAuth == AuthCall \/ Return \/ Tick \/ Reboot

SpecAuth == Init /\ [][NextAuth]_vars

\* --------------------------------------------- the time table on its own

\* The keys and timeouts UpdateKeyAccessTime is called with: one key more than
\* the table has room for; a timeout is a MIN_SECONDS_BETWEEN_OPS value other
\* than UINT32_MAX.
TimeMapKeys == 1 .. (MaxAccessTimeMapSize + 1)
TimeMapTimeouts == {1, 2}

\* An insertion was refused and none has succeeded since.
Refused ==
    /\ last /= NoCall
    /\ IF ~last.ok THEN TRUE
       ELSE last.refused_before /\ LastKeyAccessTime(last.last_access_list, last.keyid) /= -1

\* One call of UpdateKeyAccessTime; `last` keeps it, with the list it met,
\* until the next call.
TimeMapUpdate ==
    \E keyid \in TimeMapKeys, timeout \in TimeMapTimeouts :
        LET u == UpdateKeyAccessTime(access_time_map_, keyid, now, timeout)
        IN /\ access_time_map_' = u.list
           /\ last' = [called |-> TRUE, keyid |-> keyid, timeout |-> timeout,
                       last_access_list |-> access_time_map_, current_time |-> now,
                       ok |-> u.ok, refused_before |-> Refused]
           /\ UNCHANGED <<access_count_map_, now, ok_count, last_ok, in_flight>>

\* The monotonic clock moves on between two calls of UpdateKeyAccessTime.
TimeMapTick ==
    /\ now < MaxTime
    /\ now' = now + 1
    /\ UNCHANGED <<access_time_map_, access_count_map_, last, ok_count, last_ok, in_flight>>

NextTimeMap == TimeMapUpdate \/ TimeMapTick

SpecTimeMap == Init /\ [][NextTimeMap]_vars


\* ------------------------------------------------- calls made concurrently

\* AuthorizeOperation takes no lock.  A call made while another is in flight
\* reads and writes the two tables in steps that the other call's steps may
\* come between: the checks of the loop (lines 101-221), the update of the
\* time table (223-227), the lookup in the count table (408-409, 417) and the
\* store of the counter or of a new entry (410-411, 420-423).

\* The keys called concurrently: SIGN on a rate-limited key, on a rate-limited
\* and counted key, and on a counted key.
ConcKeys == {1, 2, 6}

\* The checks of a call: it ends with their error, or goes on to the updates
\* with the locals the loop left.
ConcBegin ==
    \E t \in Threads, keyid \in ConcKeys :
        LET c == Call("KM_PURPOSE_SIGN", keyid, KeyPolicy[keyid], <<>>, 0, TRUE,
                      access_time_map_, access_count_map_, now)
            error == ContentError(c)
            l == ScanPolicy(c, Len(c.auth_set))
        IN /\ in_flight[t].pc = "idle"
           /\ in_flight' = [in_flight EXCEPT ![t] =
                 [pc |-> IF error /= "KM_ERROR_OK" THEN "return" ELSE "update_time",
                  keyid |-> keyid, eval_time |-> now, ret |-> error,
                  min_ops_timeout |-> l.min_ops_timeout,
                  update_access_count |-> l.update_access_count,
                  key_access_count |-> -1]]
           /\ UNCHANGED <<access_time_map_, access_count_map_, now, last, ok_count, last_ok>>

\* Lines 223-227.
ConcUpdateTime ==
    \E t \in Threads :
        LET f == in_flight[t]
            u == UpdateKeyAccessTime(access_time_map_, f.keyid, now, f.min_ops_timeout)
        IN /\ f.pc = "update_time"
           /\ IF f.min_ops_timeout /= UINT32_MAX
              THEN /\ access_time_map_' = u.list
                   /\ in_flight' = [in_flight EXCEPT ![t] =
                         IF u.ok THEN [f EXCEPT !.pc = "lookup_count"]
                         ELSE [f EXCEPT !.pc = "return",
                                        !.ret = "KM_ERROR_TOO_MANY_OPERATIONS"]]
              ELSE /\ access_time_map_' = access_time_map_
                   /\ in_flight' = [in_flight EXCEPT ![t] = [f EXCEPT !.pc = "lookup_count"]]
           /\ UNCHANGED <<access_count_map_, now, last, ok_count, last_ok>>

\* Line 229 and the reading part of IncrementKeyAccessCount: the key's counter
\* is read, or the key is not found and the size of the list is tested.
ConcLookupCount ==
    \E t \in Threads :
        LET f == in_flight[t]
            key_access_count == KeyAccessCount(access_count_map_, f.keyid)
        IN /\ f.pc = "lookup_count"
           /\ in_flight' = [in_flight EXCEPT ![t] =
                 IF ~f.update_access_count THEN [f EXCEPT !.pc = "return"]
                 ELSE IF key_access_count = -1
                         /\ Len(access_count_map_) >= MaxAccessCountMapSize
                      THEN [f EXCEPT !.pc = "return",
                                     !.ret = "KM_ERROR_TOO_MANY_OPERATIONS"]
                      ELSE [f EXCEPT !.pc = "store_count",
                                     !.key_access_count = key_access_count]]
           /\ UNCHANGED <<access_time_map_, access_count_map_, now, last, ok_count, last_ok>>

\* The writing part of IncrementKeyAccessCount: the counter read, plus one, is
\* stored in the key's entry, or the new entry is pushed to the front.
ConcStoreCount ==
    \E t \in Threads :
        LET f == in_flight[t]
            list == access_count_map_
            hits == {i \in 1 .. Len(list) : list[i].keyid = f.keyid}
            i == CHOOSE h \in hits : \A j \in hits : h <= j
        IN /\ f.pc = "store_count"
           /\ access_count_map_' =
                 IF f.key_access_count = -1
                 THEN <<[keyid |-> f.keyid, access_count |-> 1]>> \o list
                 ELSE [list EXCEPT ![i].access_count =
                          IF f.key_access_count < UINT32_MAX
                          THEN f.key_access_count + 1 ELSE f.key_access_count]
           /\ in_flight' = [in_flight EXCEPT ![t] = [f EXCEPT !.pc = "return"]]
           /\ UNCHANGED <<access_time_map_, now, last, ok_count, last_ok>>

\* The call returns to its caller; ok_count observes a KM_ERROR_OK on a
\* counted key.
ConcReturn ==
    \E t \in Threads :
        LET f == in_flight[t]
        IN /\ f.pc = "return"
           /\ in_flight' = [in_flight EXCEPT ![t] = Idle]
           /\ ok_count' = IF f.ret = "KM_ERROR_OK" /\ Counted(f.keyid)
                             /\ ok_count[f.keyid] < OkCap
                          THEN [ok_count EXCEPT ![f.keyid] = @ + 1] ELSE ok_count
           /\ UNCHANGED <<access_time_map_, access_count_map_, now, last, last_ok>>

NextConc ==
    ConcBegin \/ ConcUpdateTime \/ ConcLookupCount \/ ConcStoreCount \/ ConcReturn \/ Tick

SpecConc == Init /\ [][NextConc]_vars

\* ------------------------------------------------------------------ claims

ContentErrors ==
    {"KM_ERROR_UNSUPPORTED_PURPOSE", "KM_ERROR_INCOMPATIBLE_PURPOSE",
     "KM_ERROR_KEY_NOT_YET_VALID", "KM_ERROR_KEY_EXPIRED",
     "KM_ERROR_KEY_RATE_LIMIT_EXCEEDED", "KM_ERROR_KEY_MAX_OPS_EXCEEDED",
     "KM_ERROR_INVALID_KEY_BLOB", "KM_ERROR_KEY_USER_NOT_AUTHENTICATED",
     "KM_ERROR_CALLER_NONCE_PROHIBITED"}

\* The positions of a tag, and the policy carrying exactly one entry of it.
TagPositions(auth_set, tag) == {pos \in Positions(auth_set) : At(auth_set, pos).tag = tag}
CarriesOne(auth_set, tag) == Cardinality(TagPositions(auth_set, tag)) = 1
TheInteger(auth_set, tag) == At(auth_set, find(auth_set, tag)).integer

\* The tables were left as the call found them.
TablesUntouched ==
    /\ access_time_map_ = last.c.last_access_list
    /\ access_count_map_ = last.c.access_count_list

\* C1: a key with MAX_USES_PER_BOOT = N, otherwise admissible (the call would
\* return OK were the key not yet counted) and with room for it in the count
\* table: a call returns OK when fewer than N calls on the key returned OK
\* since boot, and KM_ERROR_KEY_MAX_OPS_EXCEEDED once N calls did; so exactly
\* the first N calls succeed, for every N including 0.
C1_ExactlyNUses ==
    (/\ last.called
     /\ CarriesOne(last.c.auth_set, "KM_TAG_MAX_USES_PER_BOOT")
     /\ Authorize([last.c EXCEPT !.access_count_list = <<>>]).ret = "KM_ERROR_OK"
     /\ \/ KeyAccessCount(last.c.access_count_list, last.c.keyid) /= -1
        \/ Len(last.c.access_count_list) < MaxAccessCountMapSize)
    => LET N == TheInteger(last.c.auth_set, "KM_TAG_MAX_USES_PER_BOOT")
       IN /\ last.ok_before < N => last.ret = "KM_ERROR_OK"
          /\ last.ok_before >= N => last.ret = "KM_ERROR_KEY_MAX_OPS_EXCEEDED"

\* The same statement for the limits N >= 1 only.
C1_ExactlyNUsesPositive ==
    (last.called /\ CarriesOne(last.c.auth_set, "KM_TAG_MAX_USES_PER_BOOT")
       /\ TheInteger(last.c.auth_set, "KM_TAG_MAX_USES_PER_BOOT") = 0)
    \/ C1_ExactlyNUses

\* C2: a key with MIN_SECONDS_BETWEEN_OPS = T, otherwise admissible (the call
\* would return OK were the time table empty), whose last OK call since boot
\* was at time t: a call at t' returns KM_ERROR_KEY_RATE_LIMIT_EXCEEDED when
\* t' - t < T and OK when t' - t >= T, whatever calls on other keys came
\* between, for every T of the unsigned range.
C2_RateLimitExact ==
    (/\ last.called
     /\ CarriesOne(last.c.auth_set, "KM_TAG_MIN_SECONDS_BETWEEN_OPS")
     /\ Authorize([last.c EXCEPT !.last_access_list = <<>>]).ret = "KM_ERROR_OK"
     /\ last.last_ok_before /= -1)
    => LET T == TheInteger(last.c.auth_set, "KM_TAG_MIN_SECONDS_BETWEEN_OPS")
           elapsed == last.c.current_time - last.last_ok_before
       IN /\ elapsed < T => last.ret = "KM_ERROR_KEY_RATE_LIMIT_EXCEEDED"
          /\ elapsed >= T => last.ret = "KM_ERROR_OK"

\* C3: a call that returns a content error leaves both tables exactly as it
\* found them.
C3_DeniedLeavesTables ==
    (last.called /\ last.ret \in ContentErrors) => TablesUntouched

\* A call on the rate-limited and counted key 5 passed both usage checks, was
\* denied for want of a token, and the time table was not empty.
C3_Witness ==
    /\ last.called
    /\ last.ret = "KM_ERROR_KEY_USER_NOT_AUTHENTICATED"
    /\ last.c.keyid = 5
    /\ access_time_map_ /= <<>>

\* C4: a call that returns KM_ERROR_TOO_MANY_OPERATIONS has committed nothing
\* to either table.
C4_TooManyLeavesTables ==
    (last.called /\ last.ret = "KM_ERROR_TOO_MANY_OPERATIONS") => TablesUntouched

\* C10: the policy has no CALLER_NONCE entry and the operation parameters
\* hold a NONCE: the call never returns OK, and when the purpose check, the
\* loop over the policy and the authentication check pass it returns
\* KM_ERROR_CALLER_NONCE_PROHIBITED and leaves both tables as they were.
C10_CallerNonceProhibited ==
    (/\ last.called
     /\ TagPositions(last.c.auth_set, "KM_TAG_CALLER_NONCE") = {}
     /\ TagPositions(last.c.operation_params, "KM_TAG_NONCE") /= {})
    => /\ last.ret /= "KM_ERROR_OK"
       /\ LET l == ScanPolicy(last.c, Len(last.c.auth_set))
          IN (/\ authorized_purpose(last.c.purpose, last.c.auth_set) = "KM_ERROR_OK"
              /\ l.error = "KM_ERROR_OK"
              /\ ~(l.authentication_required /\ ~l.auth_token_matched))
             => /\ last.ret = "KM_ERROR_CALLER_NONCE_PROHIBITED"
                /\ TablesUntouched

\* A nonce was refused on a rate-limited and counted key that passed its
\* usage and authentication checks.
C10_Witness ==
    /\ last.called
    /\ last.ret = "KM_ERROR_CALLER_NONCE_PROHIBITED"
    /\ RateLimited(last.c.keyid) /\ Counted(last.c.keyid)
    /\ TagPositions(last.c.auth_set, "KM_TAG_USER_SECURE_ID") /= {}
    /\ access_time_map_ /= <<>>

\* The token the call presents: the first KM_TAG_AUTH_TOKEN of the parameters.
HasToken(c) == TagPositions(c.operation_params, "KM_TAG_AUTH_TOKEN") /= {}
TokenOf(c) == At(c.operation_params, find(c.operation_params, "KM_TAG_AUTH_TOKEN")).blob

\* Right size, right version, authenticity tag verified.
TokenAuthentic(tok) ==
    /\ tok.data_length = HwAuthTokenSize
    /\ tok.version = HW_AUTH_TOKEN_VERSION
    /\ tok.hmac_valid

HasEntry(auth_set, tag) == TagPositions(auth_set, tag) /= {}

\* The token's identity is one of the policy's secure ids.
TokenMatchesSecureId(auth_set, tok) ==
    \E pos \in TagPositions(auth_set, "KM_TAG_USER_SECURE_ID") :
        \/ At(auth_set, pos).long_integer = tok.user_id
        \/ At(auth_set, pos).long_integer = tok.authenticator_id

\* The token's decoded type shares a bit with a USER_AUTH_TYPE mask of the policy.
TokenMatchesAuthType(auth_set, tok) ==
    \E pos \in TagPositions(auth_set, "KM_TAG_USER_AUTH_TYPE") :
        BitAnd(At(auth_set, pos).integer, ntoh(tok.authenticator_type)) /= 0

\* The token is fresh for an AUTH_TIMEOUT of the policy at the time of the call.
TokenFresh(c, tok) ==
    \E pos \in TagPositions(c.auth_set, "KM_TAG_AUTH_TIMEOUT") :
        ~auth_token_timed_out(tok, At(c.auth_set, pos).integer, c.current_time)

\* No error was raised by the purpose check or the loop over the policy.
ScanPassed(c) ==
    /\ authorized_purpose(c.purpose, c.auth_set) = "KM_ERROR_OK"
    /\ ScanPolicy(c, Len(c.auth_set)).error = "KM_ERROR_OK"

\* Every token of AuthTokens, spoiled in its tag, its length or its version.
SpoiledTokens ==
    {[tok EXCEPT !.hmac_valid = FALSE] : tok \in AuthTokens}
      \cup {[tok EXCEPT !.data_length = HwAuthTokenSize + 1] : tok \in AuthTokens}
      \cup {[tok EXCEPT !.version = HW_AUTH_TOKEN_VERSION + 1] : tok \in AuthTokens}

\* C5: a token whose authenticity tag fails, whose length is not the token
\* size or whose version is not the expected one is never accepted:
\* AuthTokenMatches is false whatever its other fields, and a call on a key
\* with a secure id that presents only such tokens never returns OK.
C5_BadTokenNeverAccepted ==
    last.called =>
      /\ \A tok \in SpoiledTokens, sid \in {7, 9, 42} :
            ~AuthTokenMatches(last.c.auth_set, <<AuthToken(tok)>>, sid,
                              LastIndexOf(last.c.auth_set, "KM_TAG_USER_AUTH_TYPE"),
                              LastIndexOf(last.c.auth_set, "KM_TAG_AUTH_TIMEOUT"),
                              last.c.op_handle, last.c.is_begin_operation,
                              last.c.current_time)
      /\ (/\ HasToken(last.c)
          /\ \A pos \in TagPositions(last.c.operation_params, "KM_TAG_AUTH_TOKEN") :
                ~TokenAuthentic(At(last.c.operation_params, pos).blob)
          /\ HasEntry(last.c.auth_set, "KM_TAG_USER_SECURE_ID"))
         => last.ret /= "KM_ERROR_OK"

\* A token that matches key 11 in every field but whose tag does not verify
\* was presented in time and refused.
C5_Witness ==
    /\ last.called
    /\ last.c.keyid = 11 /\ last.c.purpose = "KM_PURPOSE_SIGN" /\ last.c.current_time <= 1
    /\ last.c.operation_params = <<AuthToken([GoodToken EXCEPT !.hmac_valid = FALSE])>>
    /\ last.ret = "KM_ERROR_KEY_USER_NOT_AUTHENTICATED"

TimeoutKey(auth_set) ==
    /\ HasEntry(auth_set, "KM_TAG_USER_SECURE_ID")
    /\ HasEntry(auth_set, "KM_TAG_AUTH_TIMEOUT")
    /\ ~HasEntry(auth_set, "KM_TAG_NO_AUTH_REQUIRED")

\* The call with the timestamp of its token replaced by ts.
WithTimestamp(c, ts) ==
    [c EXCEPT !.operation_params =
        [i \in 1 .. Len(c.operation_params) |->
            IF c.operation_params[i].tag = "KM_TAG_AUTH_TOKEN"
            THEN [c.operation_params[i] EXCEPT !.blob.timestamp = ts]
            ELSE c.operation_params[i]]]

\* C6: a key with USER_SECURE_ID and AUTH_TIMEOUT and no NO_AUTH_REQUIRED.  A
\* begin call returns OK only with a token that is authentic, matches a secure
\* id and the auth-type mask and has not timed out; with no token, and no
\* error from the purpose check or the loop, it returns
\* KM_ERROR_KEY_USER_NOT_AUTHENTICATED.  In a call that is not a begin the
\* token's timestamp has no effect on the result.
C6_TimeoutKeyNeedsFreshToken ==
    (last.called /\ TimeoutKey(last.c.auth_set)) =>
      /\ (last.c.is_begin_operation /\ last.ret = "KM_ERROR_OK") =>
            /\ HasToken(last.c)
            /\ TokenAuthentic(TokenOf(last.c))
            /\ TokenMatchesSecureId(last.c.auth_set, TokenOf(last.c))
            /\ TokenMatchesAuthType(last.c.auth_set, TokenOf(last.c))
            /\ TokenFresh(last.c, TokenOf(last.c))
      /\ (last.c.is_begin_operation /\ ~HasToken(last.c) /\ ScanPassed(last.c)) =>
            last.ret = "KM_ERROR_KEY_USER_NOT_AUTHENTICATED"
      /\ (~last.c.is_begin_operation /\ HasToken(last.c)) =>
            \A ts \in 0 .. MaxTime : Authorize(WithTimestamp(last.c, ts)).ret = last.ret

\* A begin on the timeout key 11 was admitted.
C6_Witness ==
    /\ last.called
    /\ last.c.keyid = 11 /\ last.c.is_begin_operation
    /\ last.ret = "KM_ERROR_OK"

\* A step that is not a begin was admitted on key 11 with a token that had
\* timed out.
C6_WitnessStale ==
    /\ last.called
    /\ last.c.keyid = 11 /\ ~last.c.is_begin_operation
    /\ HasToken(last.c) /\ ~TokenFresh(last.c, TokenOf(last.c))
    /\ last.ret = "KM_ERROR_OK"

PerOpKey(auth_set) ==
    /\ HasEntry(auth_set, "KM_TAG_USER_SECURE_ID")
    /\ ~HasEntry(auth_set, "KM_TAG_AUTH_TIMEOUT")

\* No caller-nonce violation, and no table is full.
NothingElseFails(c) ==
    /\ ScanPassed(c)
    /\ HasEntry(c.auth_set, "KM_TAG_CALLER_NONCE") \/ ~HasEntry(c.operation_params, "KM_TAG_NONCE")
    /\ Authorize([c EXCEPT !.operation_params = <<>>, !.is_begin_operation = TRUE]).ret
          /= "KM_ERROR_TOO_MANY_OPERATIONS"

\* The parts of C7 about a begin: without a token authentication is skipped
\* and the call is admitted if nothing else fails; with a token the token is
\* validated.
C7_Begin ==
    (last.called /\ PerOpKey(last.c.auth_set) /\ last.c.is_begin_operation) =>
      /\ (~HasToken(last.c) /\ NothingElseFails(last.c)) => last.ret = "KM_ERROR_OK"
      /\ (HasToken(last.c) /\ last.ret = "KM_ERROR_OK") =>
            /\ TokenAuthentic(TokenOf(last.c))
            /\ TokenMatchesSecureId(last.c.auth_set, TokenOf(last.c))
            /\ TokenMatchesAuthType(last.c.auth_set, TokenOf(last.c))

\* C7 as claimed: a key with USER_SECURE_ID and no AUTH_TIMEOUT.  A begin
\* without a token is admitted if nothing else fails, a begin with a token
\* has it validated, and every step that is not a begin is admitted only
\* with a token whose challenge is the operation handle; a token for another
\* challenge is denied with KM_ERROR_KEY_USER_NOT_AUTHENTICATED.
C7_PerOpKeyChallengeAnyHandle ==
    /\ C7_Begin
    /\ (last.called /\ PerOpKey(last.c.auth_set) /\ ~last.c.is_begin_operation) =>
          /\ last.ret = "KM_ERROR_OK" =>
                (HasToken(last.c) /\ TokenOf(last.c).challenge = last.c.op_handle)
          /\ (/\ HasToken(last.c) /\ TokenAuthentic(TokenOf(last.c))
              /\ TokenOf(last.c).challenge /= last.c.op_handle
              /\ ScanPassed(last.c))
             => last.ret = "KM_ERROR_KEY_USER_NOT_AUTHENTICATED"

\* C7 as amended: the same, where the steps that are not a begin carry a
\* non-zero operation handle; with a zero handle such a step still needs a
\* token that is authentic and matches the secure id and the auth type.
C7_PerOpKeyChallenge ==
    /\ C7_Begin
    /\ (last.called /\ PerOpKey(last.c.auth_set) /\ ~last.c.is_begin_operation) =>
          /\ last.ret = "KM_ERROR_OK" =>
                /\ HasToken(last.c)
                /\ TokenAuthentic(TokenOf(last.c))
                /\ TokenMatchesSecureId(last.c.auth_set, TokenOf(last.c))
                /\ TokenMatchesAuthType(last.c.auth_set, TokenOf(last.c))
                /\ last.c.op_handle /= 0 => TokenOf(last.c).challenge = last.c.op_handle
          /\ (/\ HasToken(last.c) /\ TokenAuthentic(TokenOf(last.c))
              /\ last.c.op_handle /= 0
              /\ TokenOf(last.c).challenge /= last.c.op_handle
              /\ ScanPassed(last.c))
             => last.ret = "KM_ERROR_KEY_USER_NOT_AUTHENTICATED"

\* A step of operation 1 on the per-operation key 12 presented the token
\* issued for challenge 2 and was denied.
C7_Witness ==
    /\ last.called
    /\ last.c.keyid = 12 /\ ~last.c.is_begin_operation /\ last.c.op_handle = 1
    /\ last.c.operation_params = <<AuthToken([GoodToken EXCEPT !.challenge = 2])>>
    /\ last.ret = "KM_ERROR_KEY_USER_NOT_AUTHENTICATED"

\* A begin without a token was admitted on the per-operation key 12.
C7_WitnessDeferred ==
    /\ last.called
    /\ last.c.keyid = 12 /\ last.c.is_begin_operation /\ ~HasToken(last.c)
    /\ last.ret = "KM_ERROR_OK"

\* Every ALGORITHM entry of the policy is RSA or EC, and there is one.
PublicKeyPolicy(auth_set) ==
    /\ HasEntry(auth_set, "KM_TAG_ALGORITHM")
    /\ \A pos \in TagPositions(auth_set, "KM_TAG_ALGORITHM") :
          At(auth_set, pos).enumerated \in {"KM_ALGORITHM_RSA", "KM_ALGORITHM_EC"}

\* No ALGORITHM entry of the policy is RSA or EC.
NonPublicKeyPolicy(auth_set) ==
    \A pos \in TagPositions(auth_set, "KM_TAG_ALGORITHM") :
        At(auth_set, pos).enumerated \notin {"KM_ALGORITHM_RSA", "KM_ALGORITHM_EC"}

ListsPurpose(auth_set, purpose) ==
    \E pos \in TagPositions(auth_set, "KM_TAG_PURPOSE") :
        At(auth_set, pos).enumerated = purpose

PurposeErrors == {"KM_ERROR_INCOMPATIBLE_PURPOSE", "KM_ERROR_UNSUPPORTED_PURPOSE"}

\* C8: VERIFY and ENCRYPT pass the purpose check on an RSA or EC key even when
\* the policy does not list them; SIGN and DECRYPT, and VERIFY and ENCRYPT on
\* a key that is not RSA or EC, return KM_ERROR_INCOMPATIBLE_PURPOSE when the
\* policy does not list the purpose; any other purpose returns
\* KM_ERROR_UNSUPPORTED_PURPOSE; and this whatever else the policy holds.
C8_PurposeAuthorization ==
    last.called =>
      LET purpose == last.c.purpose
          auth_set == last.c.auth_set
      IN /\ (purpose \in {"KM_PURPOSE_VERIFY", "KM_PURPOSE_ENCRYPT"}
               /\ PublicKeyPolicy(auth_set))
            => last.ret \notin PurposeErrors
         /\ (purpose \in {"KM_PURPOSE_SIGN", "KM_PURPOSE_DECRYPT"}
               /\ ~ListsPurpose(auth_set, purpose))
            => last.ret = "KM_ERROR_INCOMPATIBLE_PURPOSE"
         /\ (purpose \in {"KM_PURPOSE_VERIFY", "KM_PURPOSE_ENCRYPT"}
               /\ NonPublicKeyPolicy(auth_set) /\ ~ListsPurpose(auth_set, purpose))
            => last.ret = "KM_ERROR_INCOMPATIBLE_PURPOSE"
         /\ purpose \notin {"KM_PURPOSE_VERIFY", "KM_PURPOSE_ENCRYPT",
                            "KM_PURPOSE_SIGN", "KM_PURPOSE_DECRYPT"}
            => last.ret = "KM_ERROR_UNSUPPORTED_PURPOSE"
         /\ ListsPurpose(auth_set, purpose) => last.ret \notin PurposeErrors

\* VERIFY was admitted on the EC key 24, whose policy lists SIGN only.
C8_Witness ==
    /\ last.called
    /\ last.c.keyid = 24 /\ last.c.purpose = "KM_PURPOSE_VERIFY"
    /\ ~ListsPurpose(last.c.auth_set, "KM_PURPOSE_VERIFY")
    /\ last.ret = "KM_ERROR_OK"

\* The entries that make a policy malformed: a tag that must not be in a
\* key's policy, or a USER_SECURE_ID beside a NO_AUTH_REQUIRED.
OffendingPositions(auth_set) ==
    {pos \in Positions(auth_set) :
        \/ At(auth_set, pos).tag \in {"KM_TAG_INVALID", "KM_TAG_AUTH_TOKEN",
                                     "KM_TAG_ROOT_OF_TRUST", "KM_TAG_APPLICATION_DATA",
                                     "KM_TAG_BOOTLOADER_ONLY"}
        \/ /\ At(auth_set, pos).tag = "KM_TAG_USER_SECURE_ID"
           /\ HasEntry(auth_set, "KM_TAG_NO_AUTH_REQUIRED")}

FirstOffending(auth_set) ==
    CHOOSE pos \in OffendingPositions(auth_set) :
        \A q \in OffendingPositions(auth_set) : pos <= q

\* C9: a malformed policy is never admitted, and the call returns
\* KM_ERROR_INVALID_KEY_BLOB when the purpose is authorized and no entry
\* stored before the first offending one fails.
C9_MalformedPolicyRejected ==
    (last.called /\ OffendingPositions(last.c.auth_set) /= {}) =>
      /\ last.ret /= "KM_ERROR_OK"
      /\ (/\ authorized_purpose(last.c.purpose, last.c.auth_set) = "KM_ERROR_OK"
          /\ ScanPolicy(last.c, FirstOffending(last.c.auth_set)).error = "KM_ERROR_OK")
         => last.ret = "KM_ERROR_INVALID_KEY_BLOB"

\* Key 15, with NO_AUTH_REQUIRED stored before USER_SECURE_ID, was refused as
\* an invalid key blob although it presented a good token.
C9_Witness ==
    /\ last.called
    /\ last.c.keyid = 15 /\ HasToken(last.c) /\ TokenAuthentic(TokenOf(last.c))
    /\ last.ret = "KM_ERROR_INVALID_KEY_BLOB"

\* Key 18 expired before its ROOT_OF_TRUST entry was reached.
C9_WitnessEarlier ==
    /\ last.called
    /\ last.c.keyid = 18
    /\ last.ret = "KM_ERROR_KEY_EXPIRED"

\* ---------------------------------------------------------- the usage tables

\* The entries of a list, and the entry a list holds for a key.
Entries(list) == {list[i] : i \in 1 .. Len(list)}
HoldsKey(list, keyid) == \E e \in Entries(list) : e.keyid = keyid

\* now - last_access >= the entry's own timeout, in the integers.
Expired(entry, current_time) == current_time - entry.access_time >= entry.timeout

\* The time table is at capacity, holds no entry for the key and none expired.
FullOfLive(list, keyid, current_time) ==
    /\ Len(list) >= MaxAccessTimeMapSize
    /\ ~HoldsKey(list, keyid)
    /\ \A e \in Entries(list) : ~Expired(e, current_time)

\* The call reached the update of the time table (line 224).
ReachedTimeUpdate(c) ==
    /\ ContentError(c) = "KM_ERROR_OK"
    /\ ScanPolicy(c, Len(c.auth_set)).min_ops_timeout /= UINT32_MAX

\* C11: with the time table and the clock of any call, UpdateKeyAccessTime for
\* any rate-limited key keeps every entry of another key that has not expired,
\* and on a table at capacity with no entry for the key and none expired it
\* returns false and leaves the table as it was; the call of
\* AuthorizeOperation that reaches the update in that case returns
\* KM_ERROR_TOO_MANY_OPERATIONS with the time table unchanged, and no call
\* removes an entry that has not expired.
C11_NeverEvictsLive ==
    last.called =>
      LET list == last.c.last_access_list
          current_time == last.c.current_time
      IN /\ \A keyid \in RateLimitedKeys :
              LET timeout == TheInteger(KeyPolicy[keyid], "KM_TAG_MIN_SECONDS_BETWEEN_OPS")
                  u == UpdateKeyAccessTime(list, keyid, current_time, timeout)
              IN /\ \A e \in Entries(list) :
                       (e.keyid /= keyid /\ ~Expired(e, current_time)) => e \in Entries(u.list)
                 /\ FullOfLive(list, keyid, current_time) => (~u.ok /\ u.list = list)
         /\ \A e \in Entries(list) :
               (e.keyid /= last.c.keyid /\ ~Expired(e, current_time))
                  => e \in Entries(access_time_map_)
         /\ (ReachedTimeUpdate(last.c) /\ FullOfLive(list, last.c.keyid, current_time))
               => /\ last.ret = "KM_ERROR_TOO_MANY_OPERATIONS"
                  /\ access_time_map_ = list

\* A call removed an expired entry of the time table and kept a live one.
C11_Witness ==
    /\ last.called
    /\ \E e \in Entries(last.c.last_access_list) :
          Expired(e, last.c.current_time) /\ ~HoldsKey(access_time_map_, e.keyid)
    /\ \E e \in Entries(last.c.last_access_list) :
          /\ e.keyid /= last.c.keyid
          /\ ~Expired(e, last.c.current_time)
          /\ e \in Entries(access_time_map_)

\* A call met the time table full of live entries of other keys and was
\* refused.
C11_WitnessFull ==
    /\ last.called
    /\ ReachedTimeUpdate(last.c)
    /\ FullOfLive(last.c.last_access_list, last.c.keyid, last.c.current_time)
    /\ last.ret = "KM_ERROR_TOO_MANY_OPERATIONS"

\* C12: UpdateKeyAccessTime for a key the table does not hold, on a table at
\* capacity in which an entry has expired by the time of the call, returns
\* true and leaves the key's new entry at the front of a table within its
\* capacity; in particular after an insertion was refused and the clock has
\* moved on.
C12_CapacityRecoverable ==
    (/\ last.called
     /\ Len(last.last_access_list) >= MaxAccessTimeMapSize
     /\ ~HoldsKey(last.last_access_list, last.keyid)
     /\ \E e \in Entries(last.last_access_list) : Expired(e, last.current_time))
    => /\ last.ok
       /\ Len(access_time_map_) <= MaxAccessTimeMapSize
       /\ access_time_map_[1] = [keyid |-> last.keyid, access_time |-> last.current_time,
                                 timeout |-> last.timeout]

\* An insertion had been refused by a full table, the clock moved on until an
\* entry expired, and the next insertion of a key not in the table succeeded.
C12_Witness ==
    /\ last.called
    /\ last.refused_before
    /\ Len(last.last_access_list) >= MaxAccessTimeMapSize
    /\ ~HoldsKey(last.last_access_list, last.keyid)
    /\ \E e \in Entries(last.last_access_list) :
          Expired(e, last.current_time) /\ e.access_time < last.current_time
    /\ last.ok
    /\ HoldsKey(access_time_map_, last.keyid)

\* The call reached the update of the count table (line 229).
ReachedCountUpdate(c) ==
    /\ ContentError(c) = "KM_ERROR_OK"
    /\ ScanPolicy(c, Len(c.auth_set)).update_access_count
    /\ \/ ScanPolicy(c, Len(c.auth_set)).min_ops_timeout = UINT32_MAX
       \/ UpdateKeyAccessTime(c.last_access_list, c.keyid, c.current_time,
                              ScanPolicy(c, Len(c.auth_set)).min_ops_timeout).ok

\* C13: no call removes an entry of the count table or lowers a counter; a
\* call that passes every content check on a counted key the full count table
\* does not hold returns KM_ERROR_TOO_MANY_OPERATIONS and leaves the count
\* table as it was; and a counted call that returns OK on a key the table
\* holds adds one to the key's counter, whether the table is full or not.
C13_CountEntriesPersist ==
    last.called =>
      LET list == last.c.access_count_list
          keyid == last.c.keyid
          l == ScanPolicy(last.c, Len(last.c.auth_set))
      IN /\ \A e \in Entries(list) :
               \E f \in Entries(access_count_map_) :
                  f.keyid = e.keyid /\ f.access_count >= e.access_count
         /\ (/\ ContentError(last.c) = "KM_ERROR_OK"
             /\ l.update_access_count
             /\ Len(list) >= MaxAccessCountMapSize
             /\ ~HoldsKey(list, keyid))
            => /\ last.ret = "KM_ERROR_TOO_MANY_OPERATIONS"
               /\ access_count_map_ = list
         /\ (/\ last.ret = "KM_ERROR_OK"
             /\ l.update_access_count
             /\ HoldsKey(list, keyid))
            => KeyAccessCount(access_count_map_, keyid) = KeyAccessCount(list, keyid) + 1

\* The count table was full of other keys when an admissible call on a
\* counted key reached the update of the count table and was refused.
C13_Witness ==
    /\ last.called
    /\ ReachedCountUpdate(last.c)
    /\ Len(last.c.access_count_list) >= MaxAccessCountMapSize
    /\ ~HoldsKey(last.c.access_count_list, last.c.keyid)
    /\ last.ret = "KM_ERROR_TOO_MANY_OPERATIONS"

\* A key of the full count table was counted once more.
C13_WitnessCounted ==
    /\ last.called
    /\ Len(last.c.access_count_list) >= MaxAccessCountMapSize
    /\ KeyAccessCount(last.c.access_count_list, last.c.keyid) = 1
    /\ last.ret = "KM_ERROR_OK"
    /\ KeyAccessCount(access_count_map_, last.c.keyid) = 2

\* No call on the key is in flight.
Quiescent(keyid) == \A t \in Threads : in_flight[t].pc = "idle" \/ in_flight[t].keyid /= keyid

\* C14: whatever the interleaving of the calls in flight: on a key with
\* MAX_USES_PER_BOOT = N at most N calls have returned OK, and when no call on
\* the key is in flight its stored counter is the number of calls that
\* returned OK (none stored for none); and two calls on a key with
\* MIN_SECONDS_BETWEEN_OPS = T > 0 whose checks were made at the same clock
\* reading do not both return OK.
C14_AtomicUnderInterleaving ==
    /\ \A keyid \in ConcKeys \cap CountedKeys :
          /\ ok_count[keyid] <= TheInteger(KeyPolicy[keyid], "KM_TAG_MAX_USES_PER_BOOT")
          /\ (Quiescent(keyid) /\ ok_count[keyid] < OkCap) =>
                ok_count[keyid] = IF HoldsKey(access_count_map_, keyid)
                                  THEN KeyAccessCount(access_count_map_, keyid) ELSE 0
    /\ \A t1, t2 \in Threads :
          (/\ t1 /= t2
           /\ in_flight[t1].pc = "return" /\ in_flight[t2].pc = "return"
           /\ in_flight[t1].keyid = in_flight[t2].keyid
           /\ in_flight[t1].keyid \in RateLimitedKeys
           /\ TheInteger(KeyPolicy[in_flight[t1].keyid], "KM_TAG_MIN_SECONDS_BETWEEN_OPS") > 0
           /\ in_flight[t1].eval_time = in_flight[t2].eval_time)
          => ~(in_flight[t1].ret = "KM_ERROR_OK" /\ in_flight[t2].ret = "KM_ERROR_OK")

\* The entries of a list that belong to the key, in their order.
OwnEntries(list, keyid) == SelectSeq(list, LAMBDA e : e.keyid = keyid)

\* The call as it would be made with no other key in either table.
WithRoom(c) ==
    [c EXCEPT !.last_access_list = OwnEntries(c.last_access_list, c.keyid),
              !.access_count_list = OwnEntries(c.access_count_list, c.keyid)]

\* C15: a call returns KM_ERROR_TOO_MANY_OPERATIONS only when the purpose is
\* authorized, the loop over the policy raised no error, authentication was
\* not required or a token matched, and no nonce was given to a key without
\* CALLER_NONCE; the same call with the other keys' entries out of the two
\* tables returns KM_ERROR_OK.
C15_ExhaustionMasksNothing ==
    (last.called /\ last.ret = "KM_ERROR_TOO_MANY_OPERATIONS") =>
      LET c == last.c
          l == ScanPolicy(c, Len(c.auth_set))
      IN /\ authorized_purpose(c.purpose, c.auth_set) = "KM_ERROR_OK"
         /\ l.error = "KM_ERROR_OK"
         /\ ~l.authentication_required \/ l.auth_token_matched
         /\ HasEntry(c.auth_set, "KM_TAG_CALLER_NONCE")
               \/ ~HasEntry(c.operation_params, "KM_TAG_NONCE")
         /\ Authorize(WithRoom(c)).ret = "KM_ERROR_OK"

\* Key 5, with its dates, its token and both usage limits in order, was
\* refused for want of room in a table.
C15_Witness ==
    /\ last.called
    /\ last.c.keyid = 5
    /\ last.ret = "KM_ERROR_TOO_MANY_OPERATIONS"

\* The entry a list holds for the key (the list holding exactly one).
EntryOf(list, keyid) == CHOOSE e \in Entries(list) : e.keyid = keyid

\* C16: UpdateKeyAccessTime for a key the table holds returns true, at
\* capacity or not; the table then holds one entry for the key, with the
\* time of the call as its access time and the timeout it had before, not the
\* timeout of the call; and every entry of another key that has not expired
\* is still in the table.
C16_ExistingKeyRefreshed ==
    (last.called /\ HoldsKey(last.last_access_list, last.keyid)) =>
      /\ last.ok
      /\ Cardinality({i \in 1 .. Len(access_time_map_) :
                        access_time_map_[i].keyid = last.keyid}) = 1
      /\ EntryOf(access_time_map_, last.keyid) =
            [keyid |-> last.keyid, access_time |-> last.current_time,
             timeout |-> EntryOf(last.last_access_list, last.keyid).timeout]
      /\ \A e \in Entries(last.last_access_list) :
            (e.keyid /= last.keyid /\ ~Expired(e, last.current_time))
               => e \in Entries(access_time_map_)

\* The table was at capacity, with a live entry of another key, when the key
\* it held was updated at a later time and with another timeout than it was
\* stored with.
C16_Witness ==
    /\ last.called
    /\ Len(last.last_access_list) >= MaxAccessTimeMapSize
    /\ HoldsKey(last.last_access_list, last.keyid)
    /\ EntryOf(last.last_access_list, last.keyid).timeout /= last.timeout
    /\ EntryOf(last.last_access_list, last.keyid).access_time < last.current_time
    /\ \E e \in Entries(last.last_access_list) :
          e.keyid /= last.keyid /\ ~Expired(e, last.current_time)
    /\ last.ok
    /\ LastKeyAccessTime(access_time_map_, last.keyid) = last.current_time

\* No two positions of the list hold the same key.
DistinctKeys(list) ==
    \A i, j \in 1 .. Len(list) : list[i].keyid = list[j].keyid => i = j

\* C17: in every state reached by calls made one after another, the time
\* table and the count table each hold at most their max_size entries and at
\* most one entry per key.
C17_TablesBoundedNoDuplicates ==
    /\ Len(access_time_map_) <= MaxAccessTimeMapSize
    /\ Len(access_count_map_) <= MaxAccessCountMapSize
    /\ DistinctKeys(access_time_map_)
    /\ DistinctKeys(access_count_map_)

\* Both tables were full when a call on a key that both hold returned OK and
\* left them full.
C17_Witness ==
    /\ last.called
    /\ Len(last.c.last_access_list) = MaxAccessTimeMapSize
    /\ Len(last.c.access_count_list) = MaxAccessCountMapSize
    /\ HoldsKey(last.c.last_access_list, last.c.keyid)
    /\ HoldsKey(last.c.access_count_list, last.c.keyid)
    /\ last.ret = "KM_ERROR_OK"
    /\ Len(access_time_map_) = MaxAccessTimeMapSize
    /\ Len(access_count_map_) = MaxAccessCountMapSize

\* C18: the clock never going back, no entry of the time table is ahead of
\* the clock, so every entry a call scans satisfies the assertion
\* current_time >= access_time; and a call that updates the time table leaves
\* the key an access time not below the one the table held for it and not
\* below the time of the key's last OK.
C18_TimestampsMonotone ==
    /\ \A e \in Entries(access_time_map_) : e.access_time <= now
    /\ last.called =>
          /\ \A e \in Entries(last.c.last_access_list) : last.c.current_time >= e.access_time
          /\ HoldsKey(access_time_map_, last.c.keyid) =>
                /\ LastKeyAccessTime(access_time_map_, last.c.keyid)
                      >= LastKeyAccessTime(last.c.last_access_list, last.c.keyid)
                /\ LastKeyAccessTime(access_time_map_, last.c.keyid) >= last.last_ok_before
          /\ (ReachedTimeUpdate(last.c) /\ HoldsKey(access_time_map_, last.c.keyid)) =>
                LastKeyAccessTime(access_time_map_, last.c.keyid) = last.c.current_time

\* A call passed the entry of another key, stored earlier, on its way to its
\* own entry, and moved its own access time forward.
C18_Witness ==
    /\ last.called
    /\ ReachedTimeUpdate(last.c)
    /\ Len(last.c.last_access_list) >= 2
    /\ last.c.last_access_list[1].keyid /= last.c.keyid
    /\ last.c.last_access_list[1].access_time < last.c.current_time
    /\ HoldsKey(last.c.last_access_list, last.c.keyid)
    /\ LastKeyAccessTime(last.c.last_access_list, last.c.keyid) < last.c.current_time
    /\ LastKeyAccessTime(access_time_map_, last.c.keyid) = last.c.current_time

\* Authentication is put off to a later step: a begin, without a token, on a
\* key without AUTH_TIMEOUT.
Deferred(c) ==
    /\ c.is_begin_operation
    /\ ~HasEntry(c.auth_set, "KM_TAG_AUTH_TIMEOUT")
    /\ ~HasToken(c)

\* AuthTokenMatches as the call makes it, for a token and a secure id.
Matches(c, tok, sid) ==
    AuthTokenMatches(c.auth_set, <<AuthToken(tok)>>, sid,
                     LastIndexOf(c.auth_set, "KM_TAG_USER_AUTH_TYPE"),
                     LastIndexOf(c.auth_set, "KM_TAG_AUTH_TIMEOUT"),
                     c.op_handle, c.is_begin_operation, c.current_time)

\* C19: on a key with USER_SECURE_ID and no USER_AUTH_TYPE, AuthTokenMatches
\* is false for every token, a call that does not defer authentication never
\* returns OK, and returns KM_ERROR_KEY_USER_NOT_AUTHENTICATED when the
\* purpose check and the loop raise no error.  On a key with a USER_AUTH_TYPE
\* mask, AuthTokenMatches holds only for a token whose type, decoded from
\* network byte order, shares a bit with the mask, and a call that presents a
\* token on a secure-id key returns OK only with such a token.
C19_AuthTypeBinding ==
    (last.called /\ HasEntry(last.c.auth_set, "KM_TAG_USER_SECURE_ID")) =>
      LET c == last.c
      IN IF ~HasEntry(c.auth_set, "KM_TAG_USER_AUTH_TYPE")
         THEN /\ \A tok \in AuthTokens, sid \in {7, 9, 42} : ~Matches(c, tok, sid)
              /\ ~Deferred(c) => last.ret /= "KM_ERROR_OK"
              /\ (~Deferred(c) /\ ScanPassed(c))
                    => last.ret = "KM_ERROR_KEY_USER_NOT_AUTHENTICATED"
         ELSE /\ \A tok \in AuthTokens, sid \in {7, 9, 42} :
                    Matches(c, tok, sid) =>
                       BitAnd(At(c.auth_set,
                                 LastIndexOf(c.auth_set, "KM_TAG_USER_AUTH_TYPE")).integer,
                              ntoh(tok.authenticator_type)) /= 0
              /\ (HasToken(c) /\ last.ret = "KM_ERROR_OK")
                    => TokenMatchesAuthType(c.auth_set, TokenOf(c))

\* Key 28, with a secure id and a timeout but no auth type, was shown in time
\* the token of its user and refused.
C19_Witness ==
    /\ last.called
    /\ last.c.keyid = 28 /\ last.c.purpose = "KM_PURPOSE_SIGN"
    /\ last.c.is_begin_operation /\ last.c.current_time <= 1
    /\ last.c.operation_params = <<AuthToken(GoodToken)>>
    /\ last.ret = "KM_ERROR_KEY_USER_NOT_AUTHENTICATED"

\* A token whose type was not in network byte order was refused by key 12 at
\* a step of the operation it was issued for.
C19_WitnessUndecoded ==
    /\ last.called
    /\ last.c.keyid = 12 /\ last.c.purpose = "KM_PURPOSE_SIGN" /\ last.c.op_handle = 1
    /\ last.c.operation_params =
          <<AuthToken([GoodToken EXCEPT !.authenticator_type = HW_AUTH_PASSWORD])>>
    /\ last.ret = "KM_ERROR_KEY_USER_NOT_AUTHENTICATED"

====
